---- MODULE Spec2Model ----
(***************************************************************************)
(* Packed words (src/packed_words.py): validation, global descent          *)
(* factorization, the plain and left tree codecs, inversions and the left  *)
(* and right weak orders.  Words are sequences of integers; positions in   *)
(* the Python source are 0-based, TLA+ sequences are 1-based, and every    *)
(* operator below says which convention its result follows.                *)
(***************************************************************************)
EXTENDS Integers, Sequences, FiniteSets, Bags, TLC

VARIABLES
    pc,             \* where the caller stands: which call was made last
    self,           \* the receiver (or the raw list handed to the constructor)
    other,          \* the second argument of a comparison or an interval
    family,         \* the size of self.parent(), None for PackedWords()
    out,            \* what the last call returned
    arg,            \* the arguments of an upgrade or descent call, <<>> before
    ideal_todo, ideal_result,
                    \* transitive_ideal: its stack todo and its list result
    interval_res,   \* *_weak_order_interval: the list res built so far, as
                    \* the bag of its entries (a level is enumerated in no
                    \* fixed order, so the order of res is not determined)
    call,           \* the traversal method under way, "none" outside one
    current_level, pending, next_level,
                    \* the graded enumeration: the level being yielded, its
                    \* elements not yet yielded, and the level being built
                    \* (pending also holds what a loop over a family has
                    \* not yet yielded)
    tally,          \* the number of words a loop over a family has kept
    skel_calls      \* the skeleton encoders: the calls made and not yet run,
                    \* the next one to run last

travVars == <<call, ideal_todo, ideal_result, interval_res, current_level,
              pending, next_level, tally, skel_calls>>

vars == <<pc, self, other, family, out, arg, travVars>>

(* ------------------------------ bounds --------------------------------- *)
\* longest word fed to the codecs
MaxLen == 4
\* longest word in the weak-order comparisons of two words
MaxPairLen == 3
\* longest raw integer sequence handed to the constructor
MaxSeqLen == 3
\* longest word handed to upgrade_max, upgrade_last and the descent methods
MaxUpLen == 3
\* longest list of positions handed to upgrade_max, and the largest position
MaxPosLen == 3
MaxPos == 5
\* largest letter of a raw integer sequence (the smallest is MinLetter)
MaxLetter == 3
\* longest seed of a weak-order traversal
MaxSeedLen == 4

MinLetter == 0 - 1

\* PackedWords(n=None): the family of packed words of every size
None == 0 - 1

(* --------------------------- Python helpers ---------------------------- *)
Range(s) == {s[i] : i \in 1..Len(s)}

MaxOf(S) == CHOOSE x \in S : \A y \in S : y <= x
MinOf(S) == CHOOSE x \in S : \A y \in S : x <= y

\* a Python slice bound: negative counts from the end, then clamp to [0, n]
PyBound(k, n) == IF k < 0 THEN (IF n + k < 0 THEN 0 ELSE n + k)
                 ELSE (IF k > n THEN n ELSE k)

\* s[a:b] with 0-based Python bounds
Slice(s, a, b) == SubSeq(s, PyBound(a, Len(s)) + 1, PyBound(b, Len(s)))

\* s[::-1]
Reverse(s) == [i \in 1..Len(s) |-> s[Len(s) + 1 - i]]

\* list.index(x): 0-based position of the first occurrence (x occurs in s)
index(s, x) == MinOf({i \in 1..Len(s) : s[i] = x}) - 1

\* sorted(set(...)): the elements of a finite set of integers, increasing;
\* the entry at place i is the one with i - 1 smaller elements
SortedList(S) ==
    [i \in 1..Cardinality(S) |->
        CHOOSE x \in S : Cardinality({y \in S : y < x}) = i - 1]

\* list(range(a, b))
range(a, b) == [i \in 1..(IF b > a THEN b - a ELSE 0) |-> a + i - 1]

\* the exception raised by a failed construction or a rejected argument
ValueError == <<0>>

(* ------------------------------ PackedWord ----------------------------- *)
\* self._max: 0 for the empty word
max(w) == IF w = <<>> THEN 0 ELSE MaxOf(Range(w))

\* a slip in check: the comparison with 1..k is left out
check_positive_only(lst) == \A i \in 1..Len(lst) : lst[i] > 0

\* PackedWord.check: TRUE when no exception is raised
check(lst) ==
    /\ \A i \in 1..Len(lst) : lst[i] > 0
    /\ LET s == SortedList(Range(lst))
           k == MaxOf({0} \cup Range(Slice(s, 0 - 1, Len(s))))
       IN s = range(1, k + 1)

\* PackedWord(lst): the word, or the error check() raises
PackedWord(lst) == IF check(lst) THEN lst ELSE ValueError

\* a slip in pack: the 0-based index is used as the letter
pack_zero_based(li) == LET l == SortedList(Range(li))
                       IN PackedWord([i \in 1..Len(li) |-> index(l, li[i])])

\* PackedWordsBaseClass.pack
pack(li) == LET l == SortedList(Range(li))
            IN PackedWord([i \in 1..Len(li) |-> index(l, li[i]) + 1])

\* the packed words of size n (PackedWords_size.__iter__)
PackedWords_size(n) == {w \in [1..n -> 1..n] : check(w)}

PackedWordsUpTo(n) == UNION {PackedWords_size(k) : k \in 0..n}

\* a slip in complement: max - i for max + 1 - i
complement_no_shift(w) ==
    IF w = <<>> THEN w
    ELSE PackedWord([i \in 1..Len(w) |-> max(w) - w[i]])

\* PackedWord.complement
complement(w) ==
    IF w = <<>> THEN w
    ELSE PackedWord([i \in 1..Len(w) |-> max(w) + 1 - w[i]])

(* ---------------------- global descents / ascents ---------------------- *)
\* the running minimum local_left_min after the loop body at 0-based i
local_left_min(w, i) == MinOf({max(w)} \cup {w[j] : j \in 1..(i + 1)})

\* a slip in global_descents: ">=" for ">"
global_descents_geq(w, final_descent, from_zero) ==
    LET n == Len(w)
        hits == {i \in 0..(n - 2) :
                   local_left_min(w, i) >=
                       MaxOf(Range(Slice(w, i + 1, n)) \cup {0})}
        g_descents == SortedList({i + 1 : i \in hits})
                        \o (IF final_descent THEN <<n>> ELSE <<>>)
    IN IF from_zero THEN [k \in 1..Len(g_descents) |-> g_descents[k] - 1]
       ELSE g_descents

global_descents(w, final_descent, from_zero) ==
    LET n == Len(w)
        hits == {i \in 0..(n - 2) :
                   local_left_min(w, i) >
                       MaxOf(Range(Slice(w, i + 1, n)) \cup {0})}
        g_descents == SortedList({i + 1 : i \in hits})
                        \o (IF final_descent THEN <<n>> ELSE <<>>)
    IN IF from_zero THEN [k \in 1..Len(g_descents) |-> g_descents[k] - 1]
       ELSE g_descents

\* a slip in global_descents_factorization: the blocks are not packed
global_descents_factorization_raw(w) ==
    LET g_descents == global_descents(w, TRUE, FALSE)
    IN IF g_descents = <<>> THEN <<w>>
       ELSE [k \in 1..Len(g_descents) |->
               Slice(w, IF k = 1 THEN 0 ELSE g_descents[k - 1], g_descents[k])]

\* a slip in global_descents_factorization: the word is cut at its first
\* global descent only
global_descents_factorization_first(w) ==
    LET g_descents == global_descents(w, TRUE, FALSE)
    IN IF g_descents = <<>> THEN <<w>>
       ELSE IF Len(g_descents) = 1 THEN <<pack(w)>>
       ELSE <<pack(Slice(w, 0, g_descents[1])),
              pack(Slice(w, g_descents[1], Len(w)))>>

global_descents_factorization(w) ==
    LET g_descents == global_descents(w, TRUE, FALSE)
    IN IF g_descents = <<>> THEN <<w>>
       ELSE [k \in 1..Len(g_descents) |->
               pack(Slice(w, IF k = 1 THEN 0 ELSE g_descents[k - 1],
                          g_descents[k]))]

(* --------------------------- value insertion --------------------------- *)
RECURSIVE InsertAll_after(_, _, _)
\* a slip in the insertion: the new letter goes one place too far
InsertAll_after(res, l, m) ==
    IF l = <<>> THEN res
    ELSE InsertAll_after(Slice(res, 0, l[1] + 1) \o <<m>>
                            \o Slice(res, l[1] + 1, Len(res)),
                         Tail(l), m)

RECURSIVE InsertAll(_, _, _)
\* the loop "for pos in l: res = res[:pos] + [m] + res[pos:]"
InsertAll(res, l, m) ==
    IF l = <<>> THEN res
    ELSE InsertAll(Slice(res, 0, l[1]) \o <<m>> \o Slice(res, l[1], Len(res)),
                   Tail(l), m)

\* sorted(l) == l
IsSorted(l) == \A i \in 1..(Len(l) - 1) : l[i] <= l[i + 1]

upgrade_max(w, l) ==
    IF l = <<>> THEN ValueError
    ELSE IF w = <<>> THEN PackedWord(InsertAll(w, l, 1))
    ELSE IF ~IsSorted(l) THEN ValueError
    ELSE IF l[Len(l)] > Len(w) + Len(l) - 1 THEN ValueError
    ELSE PackedWord(InsertAll(w, l, max(w) + 1))

\* a slip in upgrade_last: the entries equal to val are left alone
upgrade_last_gt(w, t) ==
    LET val == t[1]
        bb == IF t[2] THEN 0 ELSE 1
    IN PackedWord([i \in 1..Len(w) |-> IF w[i] <= val THEN w[i] ELSE w[i] + bb]
                  \o <<val>>)

\* t = <<val, b>>; bb = 1 - b
upgrade_last(w, t) ==
    LET val == t[1]
        bb == IF t[2] THEN 0 ELSE 1
    IN PackedWord([i \in 1..Len(w) |-> IF w[i] < val THEN w[i] ELSE w[i] + bb]
                  \o <<val>>)

(* ------------------------- labelled ordered trees ---------------------- *)
\* LabelledOrderedTree(children, label)
LabelledOrderedTree(children, label) == [label |-> label, children |-> children]

\* 0-based positions of the letter m in w, increasing
positions(w, m) == [k \in 1..Len(SortedList({i \in 1..Len(w) : w[i] = m})) |->
                      SortedList({i \in 1..Len(w) : w[i] = m})[k] - 1]

\* [x for x in w if x < m]
RECURSIVE below(_, _)
below(w, m) == IF w = <<>> THEN <<>>
               ELSE (IF w[1] < m THEN <<w[1]>> ELSE <<>>) \o below(Tail(w), m)

RECURSIVE cut_loop(_, _, _, _, _)
\* the while loop locating the factor that holds the first maximum;
\* returns <<cut, s>> as they stand when the loop exits
cut_loop(g_desc_fact, cut, s, pos0, len_m) ==
    IF s <= pos0 /\ s < len_m
    THEN cut_loop(g_desc_fact, cut + 1, s + Len(g_desc_fact[cut + 2]), pos0, len_m)
    ELSE <<cut, s>>

(* ------------------------------ plain codec ---------------------------- *)
RECURSIVE packed_word_to_labelled_tree(_)
RECURSIVE packed_word_to_labelled_forest(_)

packed_word_to_labelled_tree(w) ==
    LET m == max(w)
        n == Len(w)
        pos_max == positions(w, m)
        self_m == below(w, m)
    IN IF m = 1 THEN LabelledOrderedTree(<<>>, <<0, range(1, 1 + n)>>)
       ELSE IF pos_max[1] >= Len(self_m)
       THEN LET children == packed_word_to_labelled_forest(PackedWord(self_m))
            IN LabelledOrderedTree(children,
                                   <<Len(children), range(1, 1 + Len(pos_max))>>)
       ELSE LET g_desc_fact == global_descents_factorization(PackedWord(self_m))
                cs == cut_loop(g_desc_fact, 0, Len(g_desc_fact[1]), pos_max[1],
                               Len(self_m))
                cut == cs[1]
                s == cs[2] - Len(g_desc_fact[cut + 1])
            IN LabelledOrderedTree(
                   [k \in 1..Len(g_desc_fact) |->
                      packed_word_to_labelled_tree(g_desc_fact[k])],
                   <<cut, [k \in 1..Len(pos_max) |-> pos_max[k] - s + 1]>>)

packed_word_to_labelled_forest(w) ==
    IF w = <<>> THEN <<>>
    ELSE LET g_desc_fact == global_descents_factorization(w)
         IN [k \in 1..Len(g_desc_fact) |->
               packed_word_to_labelled_tree(g_desc_fact[k])]

\* l_shifted_concat = lambda w1, w2: PackedWord([x+max(w2) for x in w1]+w2.list())
l_shifted_concat(w1, w2) ==
    PackedWord([i \in 1..Len(w1) |-> w1[i] + max(w2)] \o w2)

RECURSIVE shifted_fold(_, _)
\* "for w in list_w: res = l_shifted_concat(res, w)"; an error in list_w or
\* raised by a concatenation propagates
shifted_fold(res, list_w) ==
    IF res = ValueError THEN ValueError
    ELSE IF list_w = <<>> THEN res
    ELSE IF list_w[1] = ValueError THEN ValueError
    ELSE shifted_fold(l_shifted_concat(res, list_w[1]), Tail(list_w))

RECURSIVE weight(_)
\* weight = lambda t: len(t.label()[1]) + sum(weight(ti) for ti in t)
weight(t) ==
    LET RECURSIVE tot(_)
        tot(k) == IF k = 0 THEN 0 ELSE weight(t.children[k]) + tot(k - 1)
    IN Len(t.label[2]) + tot(Len(t.children))

\* a slip in weight_l: the children after the cut are counted too
weight_l_all(t) ==
    LET RECURSIVE tot(_)
        tot(k) == IF k = 0 THEN 0 ELSE weight(t.children[k]) + tot(k - 1)
    IN tot(Len(t.children))

\* weight_l = lambda t: sum(weight(ti) for ti in t[:t.label()[0]])
weight_l(t) ==
    LET head == Slice(t.children, 0, t.label[1])
        RECURSIVE tot(_)
        tot(k) == IF k = 0 THEN 0 ELSE weight(head[k]) + tot(k - 1)
    IN tot(Len(head))

RECURSIVE labelled_forest_to_packed_word(_)
RECURSIVE labelled_tree_to_packed_word(_)

labelled_forest_to_packed_word(f) ==
    IF f = <<>> THEN PackedWord(<<>>)
    ELSE IF Len(f) = 1 THEN labelled_tree_to_packed_word(f[1])
    ELSE LET list_w == [k \in 1..Len(f) |-> labelled_tree_to_packed_word(f[k])]
         IN shifted_fold(<<>>, list_w)

labelled_tree_to_packed_word(t) ==
    LET res == labelled_forest_to_packed_word(t.children)
    IN IF res = ValueError THEN ValueError
       ELSE upgrade_max(res, [k \in 1..Len(t.label[2]) |->
                                 t.label[2][k] + weight_l(t) - 1])

(* ------------------------------ left codec ----------------------------- *)
RECURSIVE packed_word_to_labelled_tree_left(_)

\* a slip in packed_word_to_labelled_tree_left: the leaf of a single letter
\* is flagged as seen
packed_word_to_labelled_tree_left_leaf(w) ==
    IF Len(w) = 1 THEN LabelledOrderedTree(<<>>, <<0, <<1, TRUE>>>>)
    ELSE LET l == w[Len(w)]
             b == l \in Range(Slice(w, 0, 0 - 1))
             self_l == pack(Slice(w, 0, 0 - 1))
             g_desc_fact == global_descents_factorization(self_l)
             cut == Len(g_desc_fact) - (IF b \/ l # max(w) THEN 1 ELSE 0)
             lbl == IF b THEN g_desc_fact[1][index(w, l) + 1]
                    ELSE IF l = max(w) THEN 1
                    ELSE LET i == index(Slice(w, 0, Len(g_desc_fact[1])), l - 1)
                         IN g_desc_fact[1][i + 1] + 1
             rev == Reverse(g_desc_fact)
         IN LabelledOrderedTree(
                [k \in 1..Len(rev) |-> packed_word_to_labelled_tree_left(rev[k])],
                <<cut, <<lbl, b>>>>)

\* a slip in packed_word_to_labelled_tree_left: the cut is lowered only when
\* the last letter occurs in the prefix
packed_word_to_labelled_tree_left_seen(w) ==
    IF Len(w) = 1 THEN LabelledOrderedTree(<<>>, <<0, <<1, FALSE>>>>)
    ELSE LET l == w[Len(w)]
             b == l \in Range(Slice(w, 0, 0 - 1))
             self_l == pack(Slice(w, 0, 0 - 1))
             g_desc_fact == global_descents_factorization(self_l)
             cut == Len(g_desc_fact) - (IF b THEN 1 ELSE 0)
             lbl == IF b THEN g_desc_fact[1][index(w, l) + 1]
                    ELSE IF l = max(w) THEN 1
                    ELSE LET i == index(Slice(w, 0, Len(g_desc_fact[1])), l - 1)
                         IN g_desc_fact[1][i + 1] + 1
             rev == Reverse(g_desc_fact)
         IN LabelledOrderedTree(
                [k \in 1..Len(rev) |-> packed_word_to_labelled_tree_left(rev[k])],
                <<cut, <<lbl, b>>>>)

packed_word_to_labelled_tree_left(w) ==
    IF Len(w) = 1 THEN LabelledOrderedTree(<<>>, <<0, <<1, FALSE>>>>)
    ELSE LET l == w[Len(w)]
             b == l \in Range(Slice(w, 0, 0 - 1))
             self_l == pack(Slice(w, 0, 0 - 1))
             g_desc_fact == global_descents_factorization(self_l)
             cut == Len(g_desc_fact) - (IF b \/ l # max(w) THEN 1 ELSE 0)
             lbl == IF b THEN g_desc_fact[1][index(w, l) + 1]
                    ELSE IF l = max(w) THEN 1
                    ELSE LET i == index(Slice(w, 0, Len(g_desc_fact[1])), l - 1)
                         IN g_desc_fact[1][i + 1] + 1
             rev == Reverse(g_desc_fact)
         IN LabelledOrderedTree(
                [k \in 1..Len(rev) |-> packed_word_to_labelled_tree_left(rev[k])],
                <<cut, <<lbl, b>>>>)

packed_word_to_labelled_forest_left(w) ==
    IF w = <<>> THEN <<>>
    ELSE LET rev == Reverse(global_descents_factorization(w))
         IN [k \in 1..Len(rev) |-> packed_word_to_labelled_tree_left(rev[k])]

RECURSIVE nb_false(_)
\* nb_false = lambda t: 1 - t.label()[1][1] + sum(nb_false(ti) for ti in t)
nb_false(t) ==
    LET RECURSIVE tot(_)
        tot(k) == IF k = 0 THEN 0 ELSE nb_false(t.children[k]) + tot(k - 1)
    IN (IF t.label[2][2] THEN 0 ELSE 1) + tot(Len(t.children))

\* a slip in nb_false_l: the correction term is dropped
nb_false_l_none(t) == 0

\* nb_false_l = lambda t: sum(nb_false(ti) for ti in t[:t.label()[0]])
nb_false_l(t) ==
    LET head == Slice(t.children, 0, t.label[1])
        RECURSIVE tot(_)
        tot(k) == IF k = 0 THEN 0 ELSE nb_false(head[k]) + tot(k - 1)
    IN tot(Len(head))

RECURSIVE labelled_forest_to_packed_word_left(_)
RECURSIVE labelled_tree_to_packed_word_left(_)

labelled_forest_to_packed_word_left(f) ==
    IF f = <<>> THEN PackedWord(<<>>)
    ELSE IF Len(f) = 1 THEN labelled_tree_to_packed_word_left(f[1])
    ELSE LET rev == Reverse(f)
             list_w == [k \in 1..Len(rev) |->
                          labelled_tree_to_packed_word_left(rev[k])]
         IN shifted_fold(<<>>, list_w)

labelled_tree_to_packed_word_left(t) ==
    LET res == labelled_forest_to_packed_word_left(t.children)
    IN IF res = ValueError THEN ValueError
       ELSE upgrade_last(res, <<t.label[2][1] + nb_false_l(t), t.label[2][2]>>)

(* ------------------------------ particular words ----------------------- *)
\* a slip in global_ascents: the places are those before the ascents
global_ascents_before(w, initial_ascent, from_zero) ==
    IF w = <<>> THEN <<>>
    ELSE LET n == Len(w)
             hits == {i \in 1..(n - 1) :
                        MaxOf({0} \cup Range(Slice(w, 0, i)))
                            < MinOf(Range(Slice(w, i, n)) \cup {max(w)})}
             g_ascents == (IF initial_ascent THEN <<1>> ELSE <<>>)
                            \o SortedList(hits)
         IN IF from_zero THEN [k \in 1..Len(g_ascents) |-> g_ascents[k] - 1]
            ELSE g_ascents

\* PackedWord.global_ascents
global_ascents(w, initial_ascent, from_zero) ==
    IF w = <<>> THEN <<>>
    ELSE LET n == Len(w)
             hits == {i \in 1..(n - 1) :
                        MaxOf({0} \cup Range(Slice(w, 0, i)))
                            < MinOf(Range(Slice(w, i, n)) \cup {max(w)})}
             g_ascents == (IF initial_ascent THEN <<1>> ELSE <<>>)
                            \o SortedList({i + 1 : i \in hits})
         IN IF from_zero THEN [k \in 1..Len(g_ascents) |-> g_ascents[k] - 1]
            ELSE g_ascents

\* a slip in is_particular: the test of the global descents is inverted
is_particular_inverted(p, side) ==
    IF p = <<>> THEN ValueError
    ELSE IF Len(p) = 1 THEN TRUE
    ELSE IF global_descents(p, FALSE, FALSE) = <<>> THEN FALSE
    ELSE IF side = "right"
    THEN \E p_m \in {PackedWord(below(p, max(p)))} :
            IF p_m = <<>> THEN TRUE
            ELSE index(p, max(p)) < global_descents(p_m, TRUE, FALSE)[1]
    ELSE \E p_m \in {pack(Slice(p, 0, 0 - 1))} :
            IF p_m = <<>> THEN TRUE
            ELSE /\ global_descents(p_m, FALSE, FALSE) = <<>>
                 /\ Len(p) \notin Range(global_ascents(p, FALSE, FALSE))

\* PackedWord.is_particular; the empty word raises
is_particular(p, side) ==
    IF p = <<>> THEN ValueError
    ELSE IF Len(p) = 1 THEN TRUE
    ELSE IF global_descents(p, FALSE, FALSE) # <<>> THEN FALSE
    ELSE IF side = "right"
    THEN \E p_m \in {PackedWord(below(p, max(p)))} :
            IF p_m = <<>> THEN TRUE
            ELSE index(p, max(p)) < global_descents(p_m, TRUE, FALSE)[1]
    ELSE \E p_m \in {pack(Slice(p, 0, 0 - 1))} :
            IF p_m = <<>> THEN TRUE
            ELSE /\ global_descents(p_m, FALSE, FALSE) = <<>>
                 /\ Len(p) \notin Range(global_ascents(p, FALSE, FALSE))

(* ------------------------------ encoder calls -------------------------- *)
\* the error of a failed list lookup
IndexError == <<0, 0, 0>>

\* One call of an encoder, without the calls it makes, is the pair
\* <<label, calls>>: the label of the node it returns and the calls it makes
\* for the children, in order, each one <<encoder, word>>; or the error it
\* raises.

\* a call either returns <<label, calls>> or raises
raises(f) == Len(f) # 2

\* PackedWord.packed_word_to_labelled_tree
labelled_tree_call(w) ==
    IF w = <<>> THEN ValueError
    ELSE LET m == max(w)
             n == Len(w)
             pos_max == positions(w, m)
             self_m == below(w, m)
         IN IF m = 1 THEN <<<<0, range(1, 1 + n)>>, <<>>>>
            ELSE IF PackedWord(self_m) = ValueError THEN ValueError
            ELSE LET g_desc_fact == global_descents_factorization(self_m)
                 IN IF pos_max[1] >= Len(self_m)
                    THEN LET children ==
                                IF self_m = <<>> THEN <<>>
                                ELSE [k \in 1..Len(g_desc_fact) |->
                                        <<"plain", g_desc_fact[k]>>]
                         IN <<<<Len(children), range(1, 1 + Len(pos_max))>>,
                              children>>
                    ELSE LET cs == cut_loop(g_desc_fact, 0, Len(g_desc_fact[1]),
                                            pos_max[1], Len(self_m))
                             cut == cs[1]
                             s == cs[2] - Len(g_desc_fact[cut + 1])
                         IN <<<<cut, [k \in 1..Len(pos_max) |->
                                        pos_max[k] - s + 1]>>,
                              [k \in 1..Len(g_desc_fact) |->
                                 <<"plain", g_desc_fact[k]>>]>>

\* a slip in packed_word_to_labelled_tree_left: the letter is looked up in
\* the last factor, g_desc_fact[-1], not in the first
labelled_tree_left_call_last(w) ==
    IF Len(w) = 1 THEN <<<<0, <<1, FALSE>>>>, <<>>>>
    ELSE IF w = <<>> THEN IndexError
    ELSE LET l == w[Len(w)]
             b == l \in Range(Slice(w, 0, 0 - 1))
             self_l == pack(Slice(w, 0, 0 - 1))
             g_desc_fact == global_descents_factorization(self_l)
             cut == Len(g_desc_fact) - (IF b \/ l # max(w) THEN 1 ELSE 0)
             rev == Reverse(g_desc_fact)
             last == g_desc_fact[Len(g_desc_fact)]
             children == [k \in 1..Len(rev) |-> <<"left", rev[k]>>]
         IN IF b
            THEN IF index(w, l) >= Len(last) THEN IndexError
                 ELSE <<<<cut, <<last[index(w, l) + 1], b>>>>,
                        children>>
            ELSE IF l = max(w) THEN <<<<cut, <<1, b>>>>, children>>
            ELSE LET head == Slice(w, 0, Len(g_desc_fact[1]))
                 IN IF (l - 1) \notin Range(head) THEN ValueError
                    ELSE IF index(head, l - 1) >= Len(g_desc_fact[1])
                    THEN IndexError
                    ELSE <<<<cut, <<g_desc_fact[1][index(head, l - 1) + 1] + 1,
                                    b>>>>,
                           children>>

\* PackedWord.packed_word_to_labelled_tree_left
labelled_tree_left_call(w) ==
    IF Len(w) = 1 THEN <<<<0, <<1, FALSE>>>>, <<>>>>
    ELSE IF w = <<>> THEN IndexError
    ELSE LET l == w[Len(w)]
             b == l \in Range(Slice(w, 0, 0 - 1))
             self_l == pack(Slice(w, 0, 0 - 1))
             g_desc_fact == global_descents_factorization(self_l)
             cut == Len(g_desc_fact) - (IF b \/ l # max(w) THEN 1 ELSE 0)
             rev == Reverse(g_desc_fact)
             children == [k \in 1..Len(rev) |-> <<"left", rev[k]>>]
         IN IF b
            THEN IF index(w, l) >= Len(g_desc_fact[1]) THEN IndexError
                 ELSE <<<<cut, <<g_desc_fact[1][index(w, l) + 1], b>>>>,
                        children>>
            ELSE IF l = max(w) THEN <<<<cut, <<1, b>>>>, children>>
            ELSE LET head == Slice(w, 0, Len(g_desc_fact[1]))
                 IN IF (l - 1) \notin Range(head) THEN ValueError
                    ELSE IF index(head, l - 1) >= Len(g_desc_fact[1])
                    THEN IndexError
                    ELSE <<<<cut, <<g_desc_fact[1][index(head, l - 1) + 1] + 1,
                                    b>>>>,
                           children>>

\* a slip in packed_word_to_red_skeleton: ">" for ">=" in the test of the
\* maxima that all stand after the other letters
red_skeleton_call_gt(w, bicolor) ==
    IF w = <<>> THEN ValueError
    ELSE LET m == max(w)
             n == Len(w)
             pos_max == positions(w, m)
             self_m == below(w, m)
         IN IF m = 1 THEN <<<<0, [k \in 1..n |-> 1]>>, <<>>>>
            ELSE IF PackedWord(self_m) = ValueError THEN ValueError
            ELSE LET g_desc_fact == global_descents_factorization(self_m)
                 IN IF pos_max[1] > Len(self_m)
                    THEN LET children ==
                                IF self_m = <<>> THEN <<>>
                                ELSE [k \in 1..Len(g_desc_fact) |->
                                        <<"red", g_desc_fact[k]>>]
                         IN <<<<Len(children), [k \in 1..Len(pos_max) |-> 1]>>,
                              children>>
                    ELSE LET cs == cut_loop(g_desc_fact, 0, Len(g_desc_fact[1]),
                                            pos_max[1], Len(self_m))
                             cut == cs[1]
                             s == cs[2] - Len(g_desc_fact[cut + 1])
                             lbl == pack(Slice(w, s, Len(w)))
                             children == [k \in 1..cut |->
                                            <<"red", g_desc_fact[k]>>]
                         IN IF lbl = <<>> THEN ValueError
                            ELSE IF bicolor /\ ~is_particular(lbl, "left")
                            THEN <<<<cut, <<>>>>,
                                   children \o <<<<"blue", lbl>>>>>>
                            ELSE <<<<cut, lbl>>, children>>

\* PackedWord.packed_word_to_red_skeleton
red_skeleton_call(w, bicolor) ==
    IF w = <<>> THEN ValueError
    ELSE LET m == max(w)
             n == Len(w)
             pos_max == positions(w, m)
             self_m == below(w, m)
         IN IF m = 1 THEN <<<<0, [k \in 1..n |-> 1]>>, <<>>>>
            ELSE IF PackedWord(self_m) = ValueError THEN ValueError
            ELSE LET g_desc_fact == global_descents_factorization(self_m)
                 IN IF pos_max[1] >= Len(self_m)
                    THEN LET children ==
                                IF self_m = <<>> THEN <<>>
                                ELSE [k \in 1..Len(g_desc_fact) |->
                                        <<"red", g_desc_fact[k]>>]
                         IN <<<<Len(children), [k \in 1..Len(pos_max) |-> 1]>>,
                              children>>
                    ELSE LET cs == cut_loop(g_desc_fact, 0, Len(g_desc_fact[1]),
                                            pos_max[1], Len(self_m))
                             cut == cs[1]
                             s == cs[2] - Len(g_desc_fact[cut + 1])
                             lbl == pack(Slice(w, s, Len(w)))
                             children == [k \in 1..cut |->
                                            <<"red", g_desc_fact[k]>>]
                         IN IF lbl = <<>> THEN ValueError
                            ELSE IF bicolor /\ ~is_particular(lbl, "left")
                            THEN <<<<cut, <<>>>>,
                                   children \o <<<<"blue", lbl>>>>>>
                            ELSE <<<<cut, lbl>>, children>>

\* PackedWord.packed_word_to_blue_skeleton
blue_skeleton_call(w, bicolor) ==
    IF Len(w) = 1 THEN <<<<0, <<1>>>>, <<>>>>
    ELSE IF w = <<>> THEN IndexError
    ELSE LET l == w[Len(w)]
             b == l \in Range(Slice(w, 0, 0 - 1))
             self_l == pack(Slice(w, 0, 0 - 1))
             g_desc_fact == global_descents_factorization(self_l)
             cut == Len(g_desc_fact) - (IF b \/ l # max(w) THEN 1 ELSE 0)
             blue_calls(ws) == [k \in 1..Len(ws) |-> <<"blue", ws[k]>>]
             promote(lbl, children) ==
                 IF lbl = ValueError THEN ValueError
                 ELSE IF bicolor /\ ~is_particular(lbl, "right")
                 THEN <<<<cut, <<>>>>, children \o <<<<"red", lbl>>>>>>
                 ELSE <<<<cut, lbl>>, children>>
         IN IF b
            THEN IF index(w, l) >= Len(g_desc_fact[1]) THEN IndexError
                 ELSE promote(PackedWord(g_desc_fact[1]
                                  \o <<g_desc_fact[1][index(w, l) + 1]>>),
                              blue_calls(Reverse(Tail(g_desc_fact))))
            ELSE IF l = max(w)
            THEN promote(PackedWord(<<1>>), blue_calls(Reverse(g_desc_fact)))
            ELSE promote(pack(Slice(w, 0, Len(g_desc_fact[1])) \o <<l>>),
                         blue_calls(Reverse(Tail(g_desc_fact))))

\* the call of the encoder named in c on the word of c
encoder_call(c, bicolor) ==
    IF c[1] = "plain" THEN labelled_tree_call(c[2])
    ELSE IF c[1] = "left" THEN labelled_tree_left_call(c[2])
    ELSE IF c[1] = "red" THEN red_skeleton_call(c[2], bicolor)
    ELSE blue_skeleton_call(c[2], bicolor)

\* encoder_call on every packed word of size at most MaxLen, worked out
\* once: the triples <<bicolor, call, what the call returns or raises>>
encoder_calls ==
    {<<bicolor, c, encoder_call(c, bicolor)>> :
        bicolor \in BOOLEAN,
        c \in {"plain", "left", "red", "blue"} \X PackedWordsUpTo(MaxLen)}

\* the calls made by the forest encoder of the named kind: the plain and the
\* red one take the factors in order, the left and the blue one reversed
forest_calls(kind, w) ==
    IF w = <<>> THEN <<>>
    ELSE LET g_desc_fact == global_descents_factorization(w)
             fs == IF kind \in {"plain", "red"} THEN g_desc_fact
                   ELSE Reverse(g_desc_fact)
         IN [k \in 1..Len(fs) |-> <<kind, fs[k]>>]

RECURSIVE skeleton(_, _)
\* the node returned by the call c of an encoder, with the nodes returned by
\* the calls it makes as children; what the call itself does is read from
\* encoder_calls
skeleton(c, bicolor) ==
    LET f == (CHOOSE t \in encoder_calls : t[1] = bicolor /\ t[2] = c)[3]
    IN LabelledOrderedTree([k \in 1..Len(f[2]) |-> skeleton(f[2][k], bicolor)],
                           f[1])

packed_word_to_red_skeleton(w, bicolor) == skeleton(<<"red", w>>, bicolor)

packed_word_to_blue_skeleton(w, bicolor) == skeleton(<<"blue", w>>, bicolor)

packed_word_to_red_skeleton_forest(w, bicolor) ==
    LET cs == forest_calls("red", w)
    IN [k \in 1..Len(cs) |-> skeleton(cs[k], bicolor)]

packed_word_to_blue_skeleton_forest(w, bicolor) ==
    LET cs == forest_calls("blue", w)
    IN [k \in 1..Len(cs) |-> skeleton(cs[k], bicolor)]

(* ------------------------------ inversions ----------------------------- *)
\* from_zero as the integer Python subtracts
shift(from_zero) == IF from_zero THEN 1 ELSE 0

\* a slip in inversions: on the left side the first occurrence of the
\* greater letter is looked at instead of the last
inversions_first(w, side, support, from_zero) ==
    LET n == Len(w)
        m == max(w)
        rev == Reverse(w)
    IN IF w = <<>> THEN {}
       ELSE IF side = "right" /\ support = "position"
       THEN {<<i + 1 - shift(from_zero), j + 1 - shift(from_zero)>> :
                <<i, j>> \in {p \in (0..(n - 2)) \X (0..(n - 1)) :
                                p[2] >= p[1] + 1 /\ w[p[1] + 1] > w[p[2] + 1]}}
       ELSE IF side = "right"
       THEN {<<w[i + 1], w[j + 1]>> :
                <<i, j>> \in {p \in (0..(n - 2)) \X (0..(n - 1)) :
                                p[2] >= p[1] + 1 /\ w[p[1] + 1] > w[p[2] + 1]}}
       ELSE IF support = "value"
       THEN {<<j, i>> :
                <<i, j>> \in {p \in (1..(m - 1)) \X (1..m) :
                                p[2] >= p[1] + 1
                                /\ index(w, p[1]) > index(w, p[2])}}
       ELSE {<<n - index(rev, j) - shift(from_zero),
               index(w, i) + 1 - shift(from_zero)>> :
                <<i, j>> \in {p \in (1..(m - 1)) \X (1..m) :
                                p[2] >= p[1] + 1
                                /\ index(w, p[1]) > index(w, p[2])}}

\* a slip in inversions: the left inversions on positions come out with
\* their two positions exchanged
inversions_swapped(w, side, support, from_zero) ==
    LET n == Len(w)
        m == max(w)
        rev == Reverse(w)
    IN IF w = <<>> THEN {}
       ELSE IF side = "right" /\ support = "position"
       THEN {<<i + 1 - shift(from_zero), j + 1 - shift(from_zero)>> :
                <<i, j>> \in {p \in (0..(n - 2)) \X (0..(n - 1)) :
                                p[2] >= p[1] + 1 /\ w[p[1] + 1] > w[p[2] + 1]}}
       ELSE IF side = "right"
       THEN {<<w[i + 1], w[j + 1]>> :
                <<i, j>> \in {p \in (0..(n - 2)) \X (0..(n - 1)) :
                                p[2] >= p[1] + 1 /\ w[p[1] + 1] > w[p[2] + 1]}}
       ELSE IF support = "value"
       THEN {<<j, i>> :
                <<i, j>> \in {p \in (1..(m - 1)) \X (1..m) :
                                p[2] >= p[1] + 1
                                /\ index(w, p[1]) > n - index(rev, p[2]) - 1}}
       ELSE {<<index(w, i) + 1 - shift(from_zero),
               n - index(rev, j) - shift(from_zero)>> :
                <<i, j>> \in {p \in (1..(m - 1)) \X (1..m) :
                                p[2] >= p[1] + 1
                                /\ index(w, p[1]) > n - index(rev, p[2]) - 1}}

\* support = None is replaced by its default before the call:
\* "position" for side = "right", "value" for side = "left"
inversions(w, side, support, from_zero) ==
    LET n == Len(w)
        m == max(w)
        rev == Reverse(w)
    IN IF w = <<>> THEN {}
       ELSE IF side = "right" /\ support = "position"
       THEN {<<i + 1 - shift(from_zero), j + 1 - shift(from_zero)>> :
                <<i, j>> \in {p \in (0..(n - 2)) \X (0..(n - 1)) :
                                p[2] >= p[1] + 1 /\ w[p[1] + 1] > w[p[2] + 1]}}
       ELSE IF side = "right"
       THEN {<<w[i + 1], w[j + 1]>> :
                <<i, j>> \in {p \in (0..(n - 2)) \X (0..(n - 1)) :
                                p[2] >= p[1] + 1 /\ w[p[1] + 1] > w[p[2] + 1]}}
       ELSE IF support = "value"
       THEN {<<j, i>> :
                <<i, j>> \in {p \in (1..(m - 1)) \X (1..m) :
                                p[2] >= p[1] + 1
                                /\ index(w, p[1]) > n - index(rev, p[2]) - 1}}
       ELSE {<<n - index(rev, j) - shift(from_zero),
               index(w, i) + 1 - shift(from_zero)>> :
                <<i, j>> \in {p \in (1..(m - 1)) \X (1..m) :
                                p[2] >= p[1] + 1
                                /\ index(w, p[1]) > n - index(rev, p[2]) - 1}}

(* --------------------------- right weak order -------------------------- *)
\* a slip in the swap of two neighbours: the second letter is written twice
swap_adjacent_copy(w, i) ==
    Slice(w, 0, i) \o <<w[i + 2], w[i + 2]>> \o Slice(w, i + 2, Len(w))

\* self[:i] + [self[i+1], self[i]] + self[i+2:], i 0-based
swap_adjacent(w, i) ==
    Slice(w, 0, i) \o <<w[i + 2], w[i + 1]>> \o Slice(w, i + 2, Len(w))

right_weak_order_succ(w) ==
    LET at == SortedList({i \in 0..(Len(w) - 2) : w[i + 1] < w[i + 2]})
    IN [k \in 1..Len(at) |-> swap_adjacent(w, at[k])]

\* a slip in right_weak_order_pred: equal neighbours are swapped too
right_weak_order_pred_geq(w) ==
    LET at == SortedList({i \in 0..(Len(w) - 2) : w[i + 1] >= w[i + 2]})
    IN [k \in 1..Len(at) |-> swap_adjacent(w, at[k])]

right_weak_order_pred(w) ==
    LET at == SortedList({i \in 0..(Len(w) - 2) : w[i + 1] > w[i + 2]})
    IN [k \in 1..Len(at) |-> swap_adjacent(w, at[k])]

(* ---------------------------- left weak order -------------------------- *)
\* every i becomes i+1 and every i+1 becomes i
swap_values(w, i) ==
    [k \in 1..Len(w) |-> IF w[k] = i THEN i + 1
                          ELSE IF w[k] = i + 1 THEN i ELSE w[k]]

\* a slip in left_weak_order_succ: the first occurrence of i is tested
\* instead of the last
left_weak_order_succ_first(w) ==
    IF w = <<>> THEN <<>>
    ELSE LET at == SortedList({i \in 1..(max(w) - 1) :
                                 index(w, i) < index(w, i + 1)})
         IN [k \in 1..Len(at) |-> swap_values(w, at[k])]

left_weak_order_succ(w) ==
    IF w = <<>> THEN <<>>
    ELSE LET at == SortedList({i \in 1..(max(w) - 1) :
                                 Len(w) - 1 - index(Reverse(w), i)
                                     < index(w, i + 1)})
         IN [k \in 1..Len(at) |-> swap_values(w, at[k])]

left_weak_order_pred(w) ==
    IF w = <<>> THEN <<>>
    ELSE LET at == SortedList({i \in 1..(max(w) - 1) :
                                 index(w, i)
                                     > Len(w) - 1 - index(Reverse(w), i + 1)})
         IN [k \in 1..Len(at) |-> swap_values(w, at[k])]

(* ------------------------------ comparison ----------------------------- *)
\* the multiplicity of each letter 1..max
to_composition(w) ==
    IF w = <<>> THEN <<>>
    ELSE [v \in 1..max(w) |-> Cardinality({i \in 1..Len(w) : w[i] = v})]

\* the blocks of positions, block v holding the positions of the letter v
to_ordered_set_partition(w) ==
    [v \in 1..max(w) |-> {i \in 1..Len(w) : w[i] = v}]

\* sage.combinat.permutation.to_standard: equal letters are numbered from
\* left to right, after all smaller letters
to_standard(w) ==
    [i \in 1..Len(w) |->
        Cardinality({j \in 1..Len(w) : w[j] < w[i]})
          + Cardinality({j \in 1..i : w[j] = w[i]})]

\* a slip in is_gequal: the two words are not required to have the same
\* composition (right) or the same blocks (left)
is_gequal_any_class(w, pw, side) ==
    IF side = "right"
    THEN inversions(PackedWord(to_standard(pw)), "left", "value", FALSE)
            \subseteq inversions(PackedWord(to_standard(w)), "left", "value", FALSE)
    ELSE inversions(pw, "right", "position", FALSE)
            \subseteq inversions(w, "right", "position", FALSE)

\* a slip in is_gequal: the inclusion of the inversion sets is reversed
is_gequal_reversed(w, pw, side) ==
    IF side = "right" /\ to_composition(w) = to_composition(pw)
    THEN inversions(PackedWord(to_standard(w)), "left", "value", FALSE)
            \subseteq inversions(PackedWord(to_standard(pw)), "left", "value", FALSE)
    ELSE IF side = "left"
            /\ Range(to_ordered_set_partition(w))
                 = Range(to_ordered_set_partition(pw))
    THEN inversions(w, "right", "position", FALSE)
            \subseteq inversions(pw, "right", "position", FALSE)
    ELSE FALSE

is_gequal(w, pw, side) ==
    IF side = "right" /\ to_composition(w) = to_composition(pw)
    THEN \* std_self and std_pw are computed once, as the two assignments do
         \E std_self \in {PackedWord(to_standard(w))},
            std_pw \in {PackedWord(to_standard(pw))} :
            inversions(std_pw, "left", "value", FALSE)
               \subseteq inversions(std_self, "left", "value", FALSE)
    ELSE LET s1 == Range(to_ordered_set_partition(w))
             s2 == Range(to_ordered_set_partition(pw))
         IN IF side = "left" /\ s1 = s2
            THEN inversions(pw, "right", "position", FALSE)
                    \subseteq inversions(w, "right", "position", FALSE)
            ELSE FALSE

\* a slip in is_lequal: the two words are not exchanged
is_lequal_same(w, pw, side) == is_gequal(w, pw, side)

\* pw.is_gequal(self, side)
is_lequal(w, pw, side) == is_gequal(pw, w, side)

(* ------------------------------- parents ------------------------------- *)
\* PackedWords_size.__contains__
size_contains(size, x) == PackedWord(x) # ValueError /\ Len(x) = size

\* a slip in the membership test: the size of the family is not looked at
parent_contains_any_size(size, x) == PackedWord(x) # ValueError

\* "other in self.parent()": a fixed-size family asks size_contains; the
\* family of all packed words is the union of the fixed-size families
parent_contains(size, x) ==
    IF size = None THEN \E k \in 0..Len(x) : size_contains(k, x)
    ELSE size_contains(size, x)

(* ------------------------- the codec specification --------------------- *)
\* no traversal is under way
IdleTraversal ==
    /\ call = "none"
    /\ ideal_todo = <<>>
    /\ ideal_result = <<>>
    /\ interval_res = EmptyBag
    /\ current_level = {}
    /\ pending = {}
    /\ next_level = {}
    /\ tally = 0
    /\ skel_calls = <<>>

\* a word is drawn, encoded by one of the two encoders, and the forest is
\* handed to the matching decoder
InitCodec ==
    /\ pc = "word"
    /\ self \in PackedWordsUpTo(MaxLen)
    /\ other = <<>>
    /\ family = None
    /\ out = <<>>
    /\ arg = <<>>
    /\ IdleTraversal

EncodePlain ==
    /\ pc = "word"
    /\ out' = packed_word_to_labelled_forest(self)
    /\ pc' = "forest"
    /\ UNCHANGED <<self, other, family, arg, travVars>>

DecodePlain ==
    /\ pc = "forest"
    /\ out' = labelled_forest_to_packed_word(out)
    /\ pc' = "decoded"
    /\ UNCHANGED <<self, other, family, arg, travVars>>

EncodeLeft ==
    /\ pc = "word"
    /\ out' = packed_word_to_labelled_forest_left(self)
    /\ pc' = "forest_left"
    /\ UNCHANGED <<self, other, family, arg, travVars>>

DecodeLeft ==
    /\ pc = "forest_left"
    /\ out' = labelled_forest_to_packed_word_left(out)
    /\ pc' = "decoded_left"
    /\ UNCHANGED <<self, other, family, arg, travVars>>

NextCodec == EncodePlain \/ DecodePlain \/ EncodeLeft \/ DecodeLeft

SpecCodec == InitCodec /\ [][NextCodec]_vars

\* C1: decoding the plain forest of a packed word gives the word back, the
\* empty word (whose forest is empty) included
PlainRoundTrip == pc = "decoded" => out = self

PlainRoundTripWitness ==
    pc = "decoded" /\ out = self /\ Len(self) = MaxLen /\ max(self) > 1
       /\ Len(global_descents(self, FALSE, FALSE)) > 0

\* C2: decoding the left forest of a packed word gives the word back
LeftRoundTrip == pc = "decoded_left" => out = self

LeftRoundTripWitness ==
    pc = "decoded_left" /\ out = self /\ Len(self) = MaxLen /\ max(self) > 1
       /\ self[Len(self)] < max(self)
       /\ self[Len(self)] \notin Range(Slice(self, 0, 0 - 1))

(* ---------------------- the constructor specification ------------------ *)
\* every list of at most n integers between MinLetter and MaxLetter
RawLists(n) == UNION {[1..k -> MinLetter..MaxLetter] : k \in 0..n}

\* a raw list of integers is handed to PackedWord(...)
InitConstruct ==
    /\ pc = "list"
    /\ self \in RawLists(MaxSeqLen)
    /\ other = <<>>
    /\ family = None
    /\ out = <<>>
    /\ arg = <<>>
    /\ IdleTraversal

Construct ==
    /\ pc = "list"
    /\ out' = PackedWord(self)
    /\ pc' = "constructed"
    /\ UNCHANGED <<self, other, family, arg, travVars>>

NextConstruct == Construct

SpecConstruct == InitConstruct /\ [][NextConstruct]_vars

\* C3: construction succeeds, returning the list as a packed word, exactly
\* when the distinct values of the list are 1..max (the empty list has
\* max 0); in every other case it raises and no word is produced
ConstructionIffPacked ==
    pc = "constructed" =>
        /\ (out # ValueError) <=> (Range(self) = 1..max(self))
        /\ (out # ValueError) => out = self

ConstructionIffPackedWitness ==
    /\ pc = "constructed"
    /\ out = ValueError
    /\ Len(self) = MaxSeqLen
    /\ \A i \in 1..Len(self) : self[i] > 0

(* ----------------------- the weak-order step specification ------------- *)
\* a word is drawn; one of the four covering steps is applied to it, and the
\* word the step returned may become the receiver of the next step
InitSteps ==
    /\ pc = "word"
    /\ self \in PackedWordsUpTo(MaxLen)
    /\ other = <<>>
    /\ family = None
    /\ out = <<>>
    /\ arg = <<>>
    /\ IdleTraversal

RightSucc ==
    /\ pc = "word"
    /\ \E k \in 1..Len(right_weak_order_succ(self)) :
          out' = right_weak_order_succ(self)[k]
    /\ pc' = "right_succ"
    /\ UNCHANGED <<self, other, family, arg, travVars>>

RightPred ==
    /\ pc = "word"
    /\ \E k \in 1..Len(right_weak_order_pred(self)) :
          out' = right_weak_order_pred(self)[k]
    /\ pc' = "right_pred"
    /\ UNCHANGED <<self, other, family, arg, travVars>>

LeftSucc ==
    /\ pc = "word"
    /\ \E k \in 1..Len(left_weak_order_succ(self)) :
          out' = left_weak_order_succ(self)[k]
    /\ pc' = "left_succ"
    /\ UNCHANGED <<self, other, family, arg, travVars>>

LeftPred ==
    /\ pc = "word"
    /\ \E k \in 1..Len(left_weak_order_pred(self)) :
          out' = left_weak_order_pred(self)[k]
    /\ pc' = "left_pred"
    /\ UNCHANGED <<self, other, family, arg, travVars>>

\* the caller goes on from the word it was given
StepAgain ==
    /\ pc \in {"right_succ", "right_pred", "left_succ", "left_pred"}
    /\ self' = out
    /\ out' = <<>>
    /\ pc' = "word"
    /\ UNCHANGED <<other, family, arg, travVars>>

NextSteps == RightSucc \/ RightPred \/ LeftSucc \/ LeftPred \/ StepAgain

SpecSteps == InitSteps /\ [][NextSteps]_vars

\* the number of right inversions on positions, of left inversions on values
right_count(w) == Cardinality(inversions(w, "right", "position", FALSE))
left_count(w) == Cardinality(inversions(w, "left", "value", FALSE))

\* C4: a right successor has exactly one more right/position inversion, a
\* right predecessor exactly one fewer; a left successor has exactly one more
\* left/value inversion, a left predecessor exactly one fewer
Grading ==
    /\ pc = "right_succ" => right_count(out) = right_count(self) + 1
    /\ pc = "right_pred" => right_count(out) = right_count(self) - 1
    /\ pc = "left_succ" => left_count(out) = left_count(self) + 1
    /\ pc = "left_pred" => left_count(out) = left_count(self) - 1

GradingWitness ==
    /\ pc = "left_succ"
    /\ Len(self) = MaxLen
    /\ max(self) < Len(self)
    /\ left_count(out) = left_count(self) + 1
    /\ left_count(self) > 0

\* C5: a word returned by succ has the receiver among its pred, and a word
\* returned by pred has the receiver among its succ, on both sides
SuccPredInverse ==
    /\ pc = "right_succ" => self \in Range(right_weak_order_pred(out))
    /\ pc = "right_pred" => self \in Range(right_weak_order_succ(out))
    /\ pc = "left_succ" => self \in Range(left_weak_order_pred(out))
    /\ pc = "left_pred" => self \in Range(left_weak_order_succ(out))

SuccPredInverseWitness ==
    /\ pc = "right_pred"
    /\ Len(self) = MaxLen
    /\ max(self) < Len(self)
    /\ self \in Range(right_weak_order_succ(out))
    /\ Len(right_weak_order_succ(out)) > 1

(* ------------------------- the traversal specification ----------------- *)
\* the order of packed words: lexicographic, a proper prefix coming first
word_less(a, b) ==
    \/ \E i \in 1..Len(a) :
          /\ i <= Len(b)
          /\ a[i] < b[i]
          /\ \A j \in 1..(i - 1) : a[j] = b[j]
    \/ Len(a) < Len(b) /\ \A j \in 1..Len(a) : a[j] = b[j]

\* result.sort(): the entry of l at place k goes to the place that counts the
\* entries less than it and the equal entries before it
sort(l) ==
    LET place(k) == Cardinality({j \in 1..Len(l) : word_less(l[j], l[k])})
                      + Cardinality({j \in 1..k : l[j] = l[k]})
    IN [i \in 1..Len(l) |-> l[CHOOSE k \in 1..Len(l) : place(k) = i]]

IdealCalls == {"right_weak_order_smaller", "right_weak_order_greater",
               "left_weak_order_smaller", "left_weak_order_greater"}

IntervalCalls == {"right_weak_order_interval", "left_weak_order_interval"}

\* the function handed to transitive_ideal by each of the four methods
ideal_f(c, x) ==
    CASE c = "right_weak_order_smaller" -> right_weak_order_pred(x)
      [] c = "right_weak_order_greater" -> right_weak_order_succ(x)
      [] c = "left_weak_order_smaller" -> left_weak_order_pred(x)
      [] c = "left_weak_order_greater" -> left_weak_order_succ(x)

\* the side an interval method passes to is_gequal, is_lequal and inversions
side_of(c) == IF c = "right_weak_order_interval" THEN "right" ELSE "left"

\* up = lambda a: a.right_weak_order_succ()  (resp. left)
up(c, a) == IF c = "right_weak_order_interval" THEN right_weak_order_succ(a)
            ELSE left_weak_order_succ(a)

\* len(x.inversions()) resp. len(x.inversions(side="left"))
count(c, x) == IF c = "right_weak_order_interval" THEN right_count(x)
               ELSE left_count(x)

RECURSIVE ideal_for(_, _, _)
\* "for y in f(x): if y not in result: result.append(y); todo.append(y)"
\* on the list ys = f(x); returns <<result, todo>>
ideal_for(ys, rs, td) ==
    IF ys = <<>> THEN <<rs, td>>
    ELSE IF ys[1] \in Range(rs) THEN ideal_for(Tail(ys), rs, td)
    ELSE ideal_for(Tail(ys), Append(rs, ys[1]), Append(td, ys[1]))

\* a slip in todo.pop(): the entry is read but left on the stack
pop_kept(td) == td

\* what todo.pop() leaves on the stack
pop(td) == SubSeq(td, 1, Len(td) - 1)

InitTraverse ==
    /\ pc = "word"
    /\ self \in PackedWordsUpTo(MaxSeedLen)
    /\ family \in {None, Len(self)}
    /\ other = <<>>
    /\ out = <<>>
    /\ arg = <<>>
    /\ IdleTraversal

\* transitive_ideal(f, x): result = [x]; todo = [x]
IdealStart ==
    /\ pc = "word"
    /\ \E c \in IdealCalls : call' = c
    /\ ideal_result' = <<self>>
    /\ ideal_todo' = <<self>>
    /\ pc' = "ideal"
    /\ UNCHANGED <<self, other, family, arg, out, interval_res, current_level,
                   pending, next_level,
                   tally, skel_calls>>

\* one round of "while todo:": x = todo.pop(), then the for loop over f(x),
\* which is computed once
IdealStep ==
    /\ pc = "ideal"
    /\ ideal_todo # <<>>
    /\ \E x \in {ideal_todo[Len(ideal_todo)]} :
          \E ys \in {ideal_f(call, x)} :
             \E rt \in {ideal_for(ys, ideal_result, pop(ideal_todo))} :
                /\ ideal_result' = rt[1]
                /\ ideal_todo' = rt[2]
    /\ UNCHANGED <<pc, self, other, family, arg, out, call, interval_res,
                   current_level, pending, next_level,
                   tally, skel_calls>>

\* todo is empty: result.sort(); return result
IdealReturn ==
    /\ pc = "ideal"
    /\ ideal_todo = <<>>
    /\ out' = sort(ideal_result)
    /\ pc' = "done"
    /\ UNCHANGED <<self, other, family, arg, travVars>>

\* the head of an interval method: the membership test, then the choice of
\* the branch and of the seed of the graded enumeration
IntervalStart ==
    /\ pc = "word"
    /\ Len(self) <= MaxPairLen
    /\ \E c \in IntervalCalls, o \in PackedWordsUpTo(MaxPairLen) :
          /\ call' = c
          /\ other' = o
          /\ interval_res' = EmptyBag
          /\ IF ~parent_contains(family, o)
             THEN /\ pc' = "raised"
                  /\ out' = ValueError
                  /\ UNCHANGED <<current_level, pending, next_level>>
             ELSE IF is_gequal(self, o, side_of(c))
             THEN /\ pc' = "UP_other"
                  /\ current_level' = {o}
                  /\ pending' = {o}
                  /\ next_level' = {}
                  /\ out' = out
             ELSE IF is_gequal(o, self, side_of(c))
             THEN /\ pc' = "UP_self"
                  /\ current_level' = {self}
                  /\ pending' = {self}
                  /\ next_level' = {}
                  /\ out' = out
             ELSE /\ pc' = "done"
                  /\ out' = EmptyBag
                  /\ UNCHANGED <<current_level, pending, next_level>>
    /\ UNCHANGED <<self, family, arg, ideal_todo, ideal_result,
                   tally, skel_calls>>

\* the greater endpoint: self in the first branch, other in the second
hi == IF pc = "UP_other" THEN self ELSE other

\* a slip in the early exit: ">=" for ">"
exceeds_geq(c, x, top) == count(c, x) >= count(c, top)

\* len(x.inversions()) > len(self.inversions())
exceeds(c, x, top) == count(c, x) > count(c, top)

\* the enumeration yields some x of the current level (a Python set, so in
\* any order) and the loop body runs on it; unless the body breaks, the
\* enumeration then adds the successors of x to the next level
IntervalStep ==
    /\ pc \in {"UP_other", "UP_self"}
    /\ \E x \in pending :
          IF is_lequal(x, hi, side_of(call))
          THEN /\ interval_res' = interval_res (+) SetToBag({x})
               /\ pending' = pending \ {x}
               /\ next_level' = next_level \cup Range(up(call, x))
               /\ UNCHANGED <<pc, out, current_level>>
          ELSE IF exceeds(call, x, hi)
          THEN /\ pc' = "done"
               /\ out' = interval_res
               /\ UNCHANGED <<interval_res, current_level, pending, next_level>>
          ELSE /\ pending' = pending \ {x}
               /\ next_level' = next_level \cup Range(up(call, x))
               /\ UNCHANGED <<pc, out, interval_res, current_level>>
    /\ UNCHANGED <<self, other, family, arg, call, ideal_todo, ideal_result,
                   tally, skel_calls>>

\* the current level is exhausted: the next one becomes current, and the
\* enumeration, hence the for loop, ends when it is empty
IntervalLevel ==
    /\ pc \in {"UP_other", "UP_self"}
    /\ pending = {}
    /\ IF next_level = {}
       THEN /\ pc' = "done"
            /\ out' = interval_res
            /\ UNCHANGED <<current_level, pending, next_level>>
       ELSE /\ current_level' = next_level
            /\ pending' = next_level
            /\ next_level' = {}
            /\ UNCHANGED <<pc, out>>
    /\ UNCHANGED <<self, other, family, arg, call, ideal_todo, ideal_result,
                   interval_res,
                   tally, skel_calls>>

NextTraverse ==
    \/ IdealStart
    \/ IdealStep
    \/ IdealReturn
    \/ IntervalStart
    \/ IntervalStep
    \/ IntervalLevel

\* the interpreter keeps running the call it is in
SpecTraverse == InitTraverse /\ [][NextTraverse]_vars /\ WF_vars(NextTraverse)

(* ------------------- reachability, stated for the claims --------------- *)
AllWords == PackedWordsUpTo(MaxSeedLen)

\* the words one covering step away from x: sd is "right" or "left", dir is
\* "succ" or "pred"
covers(x, sd, dir) ==
    IF sd = "right"
    THEN (IF dir = "succ" THEN Range(right_weak_order_succ(x))
          ELSE Range(right_weak_order_pred(x)))
    ELSE (IF dir = "succ" THEN Range(left_weak_order_succ(x))
          ELSE Range(left_weak_order_pred(x)))

RECURSIVE closure(_, _, _, _)
closure(seen, frontier, sd, dir) ==
    IF frontier = {} THEN seen
    ELSE LET new == UNION {covers(x, sd, dir) : x \in frontier} \ seen
         IN closure(seen \cup new, new, sd, dir)

\* everything reachable from w by succ steps, by pred steps
UpSet(w, sd) == closure({w}, {w}, sd, "succ")
DownSet(w, sd) == closure({w}, {w}, sd, "pred")

\* one of self, other is reachable from the other by succ steps
Comparable(sd) == other \in UpSet(self, sd) \/ self \in UpSet(other, sd)

\* the lesser and the greater of two comparable words
Lesser(sd) == IF other \in UpSet(self, sd) THEN self ELSE other
Greater(sd) == IF other \in UpSet(self, sd) THEN other ELSE self

IntervalDone == call \in IntervalCalls /\ pc \in {"done", "raised"}

IntervalIsExact ==
    (IntervalDone /\ Comparable(side_of(call))) =>
        /\ pc = "done"
        /\ BagToSet(out) = UpSet(Lesser(side_of(call)), side_of(call))
                             \cap DownSet(Greater(side_of(call)), side_of(call))
        /\ \A x \in BagToSet(out) : CopiesIn(x, out) = 1

\* an interval of three words or more, not the whole of what lies above its
\* lesser end, asked for from its greater end
IntervalIsExactWitness ==
    /\ pc = "done"
    /\ call = "right_weak_order_interval"
    /\ Comparable("right")
    /\ Greater("right") = self
    /\ self # other
    /\ Cardinality(BagToSet(out)) >= 3
    /\ BagToSet(out) # UpSet(other, "right")

\* C8: every traversal that was started finishes
TraversalsTerminate == (call # "none") ~> (pc \in {"done", "raised"})

TraversalsTerminateWitness ==
    /\ pc = "done"
    /\ call = "right_weak_order_smaller"
    /\ Len(self) = MaxSeedLen
    /\ Len(out) >= 4

\* the other word is a member of the family the receiver belongs to
OtherInFamily == family = None \/ Len(other) = family

\* C9 as stated: whenever neither word is above the other, different
\* classes and different sizes included, the interval is the empty list, no
\* error is raised, and is_gequal and is_lequal are false
IncomparableIsEmpty ==
    (IntervalDone /\ ~Comparable(side_of(call))) =>
        /\ pc = "done"
        /\ out = EmptyBag
        /\ ~is_gequal(self, other, side_of(call))
        /\ ~is_lequal(self, other, side_of(call))

\* C9 amended: as above, provided the other word belongs to the family of
\* the receiver; is_gequal and is_lequal are false in every case
IncomparableIsEmptyInFamily ==
    (IntervalDone /\ ~Comparable(side_of(call))) =>
        /\ OtherInFamily => (pc = "done" /\ out = EmptyBag)
        /\ ~is_gequal(self, other, side_of(call))
        /\ ~is_lequal(self, other, side_of(call))

IncomparableIsEmptyInFamilyWitness ==
    /\ pc = "done"
    /\ call = "left_weak_order_interval"
    /\ family = None
    /\ Len(other) # Len(self)
    /\ self # <<>>
    /\ other # <<>>
    /\ out = EmptyBag

\* C10: an interval method raises when the other word is not a member of
\* the family of the receiver, as a packed word whose size is not the size
\* of that family
NotAMemberRaises ==
    (IntervalDone /\ family # None /\ Len(other) # family) =>
        (pc = "raised" /\ out = ValueError)

NotAMemberRaisesWitness ==
    /\ pc = "raised"
    /\ out = ValueError
    /\ call = "right_weak_order_interval"
    /\ family = Len(self)
    /\ Len(other) = Len(self) + 1
    /\ PackedWord(other) = other

PositionLists == UNION {[1..k -> 0..MaxPos] : k \in 0..MaxPosLen}

InitUpgrade ==
    /\ pc = "word"
    /\ self \in PackedWordsUpTo(MaxUpLen)
    /\ other = <<>>
    /\ family = None
    /\ out = <<>>
    /\ arg = <<>>
    /\ IdleTraversal

\* self.upgrade_max(l)
UpgradeMax ==
    /\ pc = "word"
    /\ \E l \in PositionLists :
          /\ arg' = l
          /\ out' = upgrade_max(self, l)
    /\ pc' = "upgrade_max"
    /\ UNCHANGED <<self, other, family, travVars>>

\* the head of packed_word_to_labelled_tree_left: l = self[-1],
\* b = l in self[:-1], self_l = pack(self[:-1])
ExtractLast ==
    /\ pc = "word"
    /\ self # <<>>
    /\ arg' = <<self[Len(self)], self[Len(self)] \in Range(Slice(self, 0, 0 - 1))>>
    /\ out' = pack(Slice(self, 0, 0 - 1))
    /\ pc' = "extracted"
    /\ UNCHANGED <<self, other, family, travVars>>

\* self_l.upgrade_last((l, b))
UpgradeLast ==
    /\ pc = "extracted"
    /\ out' = upgrade_last(out, arg)
    /\ pc' = "upgrade_last"
    /\ UNCHANGED <<self, other, family, arg, travVars>>

NextUpgrade == UpgradeMax \/ ExtractLast \/ UpgradeLast

SpecUpgrade == InitUpgrade /\ [][NextUpgrade]_vars

\* the list of positions is strictly increasing
StrictlyIncreasing(l) == \A i \in 1..(Len(l) - 1) : l[i] < l[i + 1]

\* w without its entries equal to m
Without(w, m) ==
    LET keep == SortedList({i \in 1..Len(w) : w[i] # m})
    IN [k \in 1..Len(keep) |-> w[keep[k]]]

\* C12: for a strictly increasing list of k >= 1 positions in 0..n+k-1,
\* upgrade_max returns a packed word of size n+k and maximum max(w)+1 whose
\* entries equal to that maximum are at exactly the listed 0-based
\* positions, and deleting them gives back w
UpgradeMaxInserts ==
    (/\ pc = "upgrade_max"
     /\ arg # <<>>
     /\ StrictlyIncreasing(arg)
     /\ arg[Len(arg)] <= Len(self) + Len(arg) - 1) =>
        /\ out # ValueError
        /\ check(out)
        /\ Len(out) = Len(self) + Len(arg)
        /\ max(out) = max(self) + 1
        /\ {i \in 0..(Len(out) - 1) : out[i + 1] = max(out)} = Range(arg)
        /\ Without(out, max(out)) = self

\* three letters put in, one of them between two letters of the word and
\* one at its end
UpgradeMaxInsertsWitness ==
    /\ pc = "upgrade_max"
    /\ Len(self) = MaxUpLen
    /\ Len(arg) = 3
    /\ StrictlyIncreasing(arg)
    /\ arg[1] > 0
    /\ arg[3] = Len(self) + 2
    /\ arg[2] < arg[3] - 1
    /\ check(out)

\* C13: upgrade_max raises, whatever the word, when the list of positions
\* is empty, is not in increasing order, or holds a position beyond the
\* final size
UpgradeMaxRejects ==
    (/\ pc = "upgrade_max"
     /\ \/ arg = <<>>
        \/ ~IsSorted(arg)
        \/ \E i \in 1..Len(arg) : arg[i] > Len(self) + Len(arg) - 1) =>
        out = ValueError

\* C14: upgrade_last with the last letter l of w and seen = (l occurs in
\* the prefix p) gives w back from pack(p); when seen is false the entries
\* of pack(p) that are >= l are one more in the result, when seen is true
\* every entry is unchanged
UpgradeLastUndoes ==
    pc = "upgrade_last" =>
        LET p == pack(Slice(self, 0, 0 - 1))
        IN /\ out = self
           /\ \A i \in 1..Len(p) :
                 out[i] = IF ~arg[2] /\ p[i] >= arg[1] THEN p[i] + 1 ELSE p[i]
           /\ out[Len(out)] = arg[1]

\* a new last letter that is not the maximum: entries are shifted
UpgradeLastUndoesWitness ==
    /\ pc = "upgrade_last"
    /\ Len(self) = MaxUpLen
    /\ ~arg[2]
    /\ arg[1] < max(self)
    /\ out = self
    /\ pack(Slice(self, 0, 0 - 1)) # Slice(self, 0, 0 - 1)

(* ------------------------- the methods specification ------------------- *)
\* a packed word is drawn and one of its methods is called
InitMethods ==
    /\ pc = "word"
    /\ self \in PackedWordsUpTo(MaxLen)
    /\ other = <<>>
    /\ family = None
    /\ out = <<>>
    /\ arg = <<>>
    /\ IdleTraversal

\* self.global_descents(final_descent, from_zero)
GlobalDescents ==
    /\ pc = "word"
    /\ \E final_descent \in BOOLEAN, from_zero \in BOOLEAN :
          /\ arg' = <<final_descent, from_zero>>
          /\ out' = global_descents(self, final_descent, from_zero)
    /\ pc' = "global_descents"
    /\ UNCHANGED <<self, other, family, travVars>>

\* self.global_descents_factorization()
Factorization ==
    /\ pc = "word"
    /\ out' = global_descents_factorization(self)
    /\ pc' = "factorization"
    /\ UNCHANGED <<self, other, family, arg, travVars>>

\* the 1-indexed positions d, 1 <= d < n, with every letter at or before d
\* greater than every letter after d
DescentSet(w) ==
    {d \in 1..(Len(w) - 1) :
        \A i \in 1..d : \A j \in (d + 1)..Len(w) : w[i] > w[j]}

\* C15: global_descents returns the positions of DescentSet in increasing
\* order, followed by n when final_descent is set, each one less when
\* from_zero is set
GlobalDescentsExact ==
    pc = "global_descents" =>
        LET ds == SortedList(DescentSet(self))
                    \o (IF arg[1] THEN <<Len(self)>> ELSE <<>>)
            sh == IF arg[2] THEN 1 ELSE 0
        IN out = [k \in 1..Len(ds) |-> ds[k] - sh]

\* two global descents, asked for with both options
GlobalDescentsExactWitness ==
    /\ pc = "global_descents"
    /\ arg = <<TRUE, TRUE>>
    /\ Len(self) = MaxLen
    /\ Cardinality(DescentSet(self)) = 2
    /\ Len(out) = 3

\* the sum of the sizes of a list of words
RECURSIVE SumLen(_)
SumLen(ws) == IF ws = <<>> THEN 0 ELSE Len(ws[1]) + SumLen(Tail(ws))

\* C16: the factorization is the list of the blocks between consecutive
\* global descents, in order, each packed; the sizes add up to the size of
\* the word, every block is a packed word, and a word without a global
\* descent gives the list of itself alone
FactorizationExact ==
    pc = "factorization" =>
        LET ds == SortedList(DescentSet(self))
            cuts == <<0>> \o ds \o <<Len(self)>>
        IN /\ out = [k \in 1..(Len(ds) + 1) |->
                        pack(SubSeq(self, cuts[k] + 1, cuts[k + 1]))]
           /\ SumLen(out) = Len(self)
           /\ \A k \in 1..Len(out) : check(out[k])
           /\ DescentSet(self) = {} => out = <<self>>

\* a block that packing changes
FactorizationExactWitness ==
    /\ pc = "factorization"
    /\ Len(self) = MaxLen
    /\ Len(out) = 2
    /\ Len(out[1]) = 2
    /\ out[1] # SubSeq(self, 1, 2)

\* self.complement()
Complement ==
    /\ pc = "word"
    /\ out' = complement(self)
    /\ pc' = "complement"
    /\ UNCHANGED <<self, other, family, arg, travVars>>

\* the complement of the word complement() returned
ComplementAgain ==
    /\ pc = "complement"
    /\ out' = complement(out)
    /\ pc' = "complement2"
    /\ UNCHANGED <<self, other, family, arg, travVars>>

\* self.inversions(side, support, from_zero); support = None is replaced by
\* "position" on the right side and by "value" on the left side
Inversions ==
    /\ pc = "word"
    /\ \E side \in {"right", "left"}, support \in {"None", "position", "value"},
          from_zero \in BOOLEAN :
          /\ arg' = <<side, support, from_zero>>
          /\ out' = inversions(self, side,
                               IF support # "None" THEN support
                               ELSE IF side = "right" THEN "position"
                               ELSE "value",
                               from_zero)
    /\ pc' = "inversions"
    /\ UNCHANGED <<self, other, family, travVars>>

\* C18: the complement of a packed word is a packed word of the same size
\* and maximum whose entry i is max(w)+1-w_i, and the complement of the
\* complement is the word
ComplementInvolution ==
    /\ pc = "complement" =>
          /\ check(out)
          /\ Len(out) = Len(self)
          /\ max(out) = max(self)
          /\ \A i \in 1..Len(self) : out[i] = max(self) + 1 - self[i]
    /\ pc = "complement2" => out = self

ComplementInvolutionWitness ==
    /\ pc = "complement2"
    /\ Len(self) = MaxLen
    /\ max(self) = 3
    /\ out = self
    /\ complement(self) # self

\* the 1-based positions of the first and of the last occurrence of x in w
FirstAt(w, x) == MinOf({i \in 1..Len(w) : w[i] = x})
LastAt(w, x) == MaxOf({i \in 1..Len(w) : w[i] = x})

\* C19: the left inversions on values of a word of maximum m are the pairs
\* (b, a), 1 <= a < b <= m, with the first occurrence of a strictly after
\* the last occurrence of b
LeftValueInversions ==
    (pc = "inversions" /\ arg[1] = "left" /\ arg[2] = "value") =>
        out = {<<b, a>> : <<a, b>> \in
                 {p \in (1..max(self)) \X (1..max(self)) :
                     /\ p[1] < p[2]
                     /\ FirstAt(self, p[1]) > LastAt(self, p[2])}}

\* a repeated letter whose last occurrence decides, and a pair of letters
\* that is no inversion
LeftValueInversionsWitness ==
    /\ pc = "inversions"
    /\ arg[1] = "left"
    /\ arg[2] = "value"
    /\ Len(self) = MaxLen
    /\ out = {<<3, 1>>}
    /\ LastAt(self, 2) > FirstAt(self, 2)
    /\ FirstAt(self, 1) < LastAt(self, 2)

Skeleton ==
    /\ pc = "word"
    /\ \E color \in {"red", "blue"} :
       \E f \in {encoder_call(<<color, self>>, FALSE)} :
          /\ arg' = <<color, FALSE>>
          /\ out' = IF raises(f) THEN f ELSE skeleton(<<color, self>>, FALSE)
          /\ pc' = IF raises(f) THEN "raised" ELSE "skeleton"
    /\ UNCHANGED <<self, other, family, travVars>>

\* the side of is_particular that goes with a skeleton: the default side
\* with the red one, "left" with the blue one
side_for(color) == IF color = "red" THEN "right" ELSE "left"

\* C27: on a non-empty packed word w without global descents, with bicolor
\* off, the red skeleton is a childless node with cut 0 and label w exactly
\* when w.is_particular() holds, and the blue skeleton is one exactly when
\* w.is_particular("left") holds
ParticularIsLeaf ==
    (pc = "skeleton" /\ ~arg[2] /\ self # <<>>
        /\ global_descents(self, FALSE, FALSE) = <<>>) =>
        (is_particular(self, side_for(arg[1])) <=>
            (/\ out.children = <<>>
             /\ out.label[1] = 0
             /\ out.label[2] = self))

\* a particular word with two values, of the largest size
ParticularIsLeafWitness ==
    /\ pc = "skeleton"
    /\ arg = <<"red", FALSE>>
    /\ Len(self) = MaxLen
    /\ max(self) = 2
    /\ out.children = <<>>
    /\ out.label = <<0, self>>

\* self.packed_word_to_labelled_tree_left(); the empty word raises
TreeLeft ==
    /\ pc = "word"
    /\ out' = IF raises(labelled_tree_left_call(self))
              THEN labelled_tree_left_call(self)
              ELSE packed_word_to_labelled_tree_left(self)
    /\ pc' = IF raises(labelled_tree_left_call(self)) THEN "raised"
             ELSE "tree_left"
    /\ UNCHANGED <<self, other, family, arg, travVars>>

\* the number of global-descent factors of the packed prefix
PrefixFactors(w) ==
    Len(global_descents_factorization(pack(Slice(w, 0, 0 - 1))))

\* b: the last letter occurs in the prefix
LastSeen(w) == w[Len(w)] \in Range(Slice(w, 0, 0 - 1))

\* C24 as stated: the cut of the left tree of a word of size >= 2 is the
\* number of factors of the packed prefix when the last letter is not in the
\* prefix and is not the maximum of the prefix, and one less otherwise
LeftCutByPrefix ==
    (pc = "tree_left" /\ Len(self) >= 2) =>
        out.label[1] =
            IF ~LastSeen(self)
                 /\ self[Len(self)] # max(Slice(self, 0, 0 - 1))
            THEN PrefixFactors(self) ELSE PrefixFactors(self) - 1

\* C24: the cut of the left tree of a word of size >= 2 is the number of
\* factors of the packed prefix when the last letter is not in the prefix
\* and is the maximum of the word, and one less in every other case
LeftCutByMaximum ==
    (pc = "tree_left" /\ Len(self) >= 2) =>
        out.label[1] =
            IF ~LastSeen(self) /\ self[Len(self)] = max(self)
            THEN PrefixFactors(self) ELSE PrefixFactors(self) - 1

\* a new last letter below the maximum: the cut is one less than the number
\* of factors
LeftCutByMaximumWitness ==
    /\ pc = "tree_left"
    /\ Len(self) = MaxLen
    /\ ~LastSeen(self)
    /\ self[Len(self)] < max(self)
    /\ PrefixFactors(self) = 2
    /\ out.label[1] = 1

\* out[k].global_descents_factorization() for a block of the factorization
\* returned
FactorizeBlock ==
    /\ pc = "factorization"
    /\ \E k \in 1..Len(out) :
          /\ other' = out[k]
          /\ out' = global_descents_factorization(out[k])
    /\ pc' = "block_factorization"
    /\ UNCHANGED <<self, family, arg, travVars>>

\* C28: no block of the factorization of a non-empty packed word has a
\* global descent, and the factorization of a block is the block alone
BlocksHaveNoDescent ==
    /\ (pc = "factorization" /\ self # <<>>) =>
          \A k \in 1..Len(out) : global_descents(out[k], FALSE, FALSE) = <<>>
    /\ (pc = "block_factorization" /\ self # <<>>) => out = <<other>>

\* the second of three blocks, of size two, factored again
BlocksHaveNoDescentWitness ==
    /\ pc = "block_factorization"
    /\ Len(self) = MaxLen
    /\ Len(global_descents_factorization(self)) = 3
    /\ Len(other) = 2
    /\ other = global_descents_factorization(self)[2]
    /\ out = <<other>>

NextMethods ==
    \/ GlobalDescents
    \/ Factorization
    \/ Complement
    \/ ComplementAgain
    \/ Inversions
    \/ Skeleton
    \/ TreeLeft
    \/ FactorizeBlock

SpecMethods == InitMethods /\ [][NextMethods]_vars

(* --------------------------- the pack specification -------------------- *)
\* PackedWords().pack(li) on a raw list of integers
Pack ==
    /\ pc = "list"
    /\ out' = pack(self)
    /\ pc' = "packed"
    /\ UNCHANGED <<self, other, family, arg, travVars>>

NextPack == Pack

SpecPack == InitConstruct /\ [][NextPack]_vars

\* C17: pack never fails and returns a packed word of the length of its
\* argument, and it returns its argument when that is a packed word
PackTotalIdentity ==
    pc = "packed" =>
        /\ out # ValueError
        /\ check(out)
        /\ Len(out) = Len(self)
        /\ check(self) => out = self

\* a packed word with a repeated letter
PackTotalIdentityWitness ==
    /\ pc = "packed"
    /\ Len(self) = MaxSeqLen
    /\ check(self)
    /\ max(self) < Len(self)
    /\ out = self

(* ====================================================================== *)
(* The forest encoders, one call at a time.  skel_calls holds the calls    *)
(* not yet run, the last one being the next to run; other is the last word *)
(* handed from one colour to the other.                                    *)
(* ====================================================================== *)
\* the forest returned by the forest encoder of the named kind
encoder_forest(kind, bicolor, w) ==
    LET cs == forest_calls(kind, w)
    IN [k \in 1..Len(cs) |-> skeleton(cs[k], bicolor)]

InitEncoders ==
    /\ pc = "word"
    /\ self \in PackedWordsUpTo(MaxLen)
    /\ other = <<>>
    /\ family = None
    /\ out = <<>>
    /\ arg = <<>>
    /\ IdleTraversal

\* self.packed_word_to_labelled_forest(), ..._forest_left(),
\* ..._red_skeleton_forest(bicolor), ..._blue_skeleton_forest(bicolor)
EncodeStart ==
    /\ pc = "word"
    /\ \E kind \in {"plain", "left", "red", "blue"}, bicolor \in BOOLEAN :
          /\ kind \in {"plain", "left"} => ~bicolor
          /\ arg' = <<kind, bicolor>>
          /\ skel_calls' = Reverse(forest_calls(kind, self))
    /\ pc' = "encoding"
    /\ UNCHANGED <<self, other, family, out, call, ideal_todo, ideal_result,
                   interval_res, current_level, pending, next_level, tally>>

\* the next call runs up to the calls it makes, or raises
EncodeStep ==
    /\ pc = "encoding"
    /\ skel_calls # <<>>
    /\ \E c \in {skel_calls[Len(skel_calls)]} :
       \E t \in {x \in encoder_calls : x[1] = arg[2] /\ x[2] = c} :
       \E f \in {t[3]} :
          IF raises(f)
          THEN /\ pc' = "raised"
               /\ out' = f
               /\ UNCHANGED <<skel_calls, other>>
          ELSE /\ skel_calls' = SubSeq(skel_calls, 1, Len(skel_calls) - 1)
                                    \o Reverse(f[2])
               /\ other' = IF \E k \in 1..Len(f[2]) : f[2][k][1] # c[1]
                           THEN f[2][Len(f[2])][2] ELSE other
               /\ UNCHANGED <<pc, out>>
    /\ UNCHANGED <<self, family, arg, call, ideal_todo, ideal_result,
                   interval_res, current_level, pending, next_level, tally>>

\* every call has returned: the forest is returned
EncodeReturn ==
    /\ pc = "encoding"
    /\ skel_calls = <<>>
    /\ out' = encoder_forest(arg[1], arg[2], self)
    /\ pc' = "encoded"
    /\ UNCHANGED <<self, other, family, arg, travVars>>

NextEncoders == EncodeStart \/ EncodeStep \/ EncodeReturn

\* a call that is due runs
SpecEncoders == InitEncoders /\ [][NextEncoders]_vars /\ WF_vars(EncodeStep)

\* C26: with bicolor set, the red and the blue skeleton forest encoders of a
\* non-empty packed word finish: every encoding under way leads to a state
\* with no call left to run (or to an error), never to calls without end
BicolorTerminates ==
    (pc = "encoding" /\ self # <<>> /\ arg[2])
        ~> (skel_calls = <<>> \/ pc = "raised")

\* a red encoding that handed a word to the blue encoder and has returned
BicolorTerminatesWitness ==
    /\ pc = "encoded"
    /\ arg = <<"red", TRUE>>
    /\ other # <<>>
    /\ Len(self) = MaxLen

\* the next call to run uses a lookup of the left or the blue encoder
LooksUp(c) ==
    /\ c[1] \in {"left", "blue"}
    /\ Len(c[2]) > 1
    /\ c[2][Len(c[2])] # max(c[2]) \/ c[2][Len(c[2])] \in Range(Slice(c[2], 0, 0 - 1))

\* the lookup of the call c finds its target inside the first factor
LookupInside(c) ==
    LET w == c[2]
        l == w[Len(w)]
        g0 == global_descents_factorization(pack(Slice(w, 0, 0 - 1)))[1]
    IN IF l \in Range(Slice(w, 0, 0 - 1))
       THEN index(w, l) < Len(g0)
       ELSE c[1] = "left" => (l - 1) \in Range(Slice(w, 0, Len(g0)))

\* C29: the four forest encoders, bicolor set or not, raise nothing on a
\* packed word; every call of the left or the blue encoder that is reached
\* finds the letter it looks up inside the first factor
EncodersTotal ==
    /\ pc # "raised"
    /\ pc = "encoding" =>
          \A k \in 1..Len(skel_calls) :
              /\ skel_calls[k][2] # <<>>
              /\ LooksUp(skel_calls[k]) => LookupInside(skel_calls[k])

\* a left encoding about to look up l - 1 in a sub-word reached by recursion
EncodersTotalWitness ==
    /\ pc = "encoding"
    /\ arg[1] = "left"
    /\ skel_calls # <<>>
    /\ LET c == skel_calls[Len(skel_calls)]
           w == c[2]
       IN /\ c \notin Range(forest_calls("left", self))
          /\ Len(w) > 1
          /\ w[Len(w)] \notin Range(Slice(w, 0, 0 - 1))
          /\ w[Len(w)] # max(w)

(* ---------------------- the nodes of a left forest ---------------------- *)
RECURSIVE node_count(_)
\* the number of nodes of a tree
node_count(t) ==
    LET RECURSIVE tot(_)
        tot(k) == IF k = 0 THEN 0 ELSE node_count(t.children[k]) + tot(k - 1)
    IN 1 + tot(Len(t.children))

\* C30: the left forest of a packed word w has size(w) nodes, max(w) of them
\* with the flag seen false
LeftForestCounts ==
    pc = "forest_left" =>
        LET RECURSIVE nodes(_)
            nodes(k) == IF k = 0 THEN 0 ELSE node_count(out[k]) + nodes(k - 1)
            RECURSIVE unseen(_)
            unseen(k) == IF k = 0 THEN 0 ELSE nb_false(out[k]) + unseen(k - 1)
        IN /\ nodes(Len(out)) = Len(self)
           /\ unseen(Len(out)) = max(self)

\* a forest of two trees for a word with a repeated letter
LeftForestCountsWitness ==
    /\ pc = "forest_left"
    /\ Len(self) = MaxLen
    /\ max(self) = 3
    /\ Len(out) = 2
    /\ out[2].children # <<>>

(* ---------------------- closure under the steps ------------------------- *)
\* C25: every word reached by right and left succ and pred steps from a
\* packed word is a packed word; a step keeps the size and the maximum, a
\* right step keeps the number of occurrences of every value and a left step
\* keeps the set of the blocks of positions
StepsStayPacked ==
    /\ check(self)
    /\ pc \in {"right_succ", "right_pred", "left_succ", "left_pred"} =>
          /\ check(out)
          /\ Len(out) = Len(self)
          /\ max(out) = max(self)
    /\ pc \in {"right_succ", "right_pred"} =>
          to_composition(out) = to_composition(self)
    /\ pc \in {"left_succ", "left_pred"} =>
          Range(to_ordered_set_partition(out))
              = Range(to_ordered_set_partition(self))

\* a left step that changes the composition and keeps the blocks
StepsStayPackedWitness ==
    /\ pc = "left_pred"
    /\ Len(self) = MaxLen
    /\ to_composition(out) # to_composition(self)
    /\ to_ordered_set_partition(out) # to_ordered_set_partition(self)

(* ====================================================================== *)
(* The families PackedWords(n) and PackedWords(): counting, ordered set    *)
(* partitions, and the words above a permutation.                          *)
(* ====================================================================== *)
\* the doctest of is_particular counts the words of the sizes in range(1, 7)
MaxFamily == 6
\* the largest base set of an ordered set partition handed in
MaxOspSize == 3
\* the largest list handed to permutation_to_packed_words, and its letters
MaxPermLen == 3

RECURSIVE factorial(_)
factorial(k) == IF k = 0 THEN 1 ELSE k * factorial(k - 1)

RECURSIVE stirling_number2(_, _)
\* the number of set partitions of n elements into k blocks
stirling_number2(n, k) ==
    IF n = 0 /\ k = 0 THEN 1
    ELSE IF n = 0 \/ k = 0 THEN 0
    ELSE k * stirling_number2(n - 1, k) + stirling_number2(n - 1, k - 1)

\* a slip in the count: the orders of the blocks are not counted
cardinality_unordered(n) ==
    LET RECURSIVE tot(_)
        tot(k) == IF k < 0 THEN 0 ELSE stirling_number2(n, k) + tot(k - 1)
    IN tot(n)

\* PackedWords_size.cardinality: OrderedSetPartitions(n).cardinality(), the
\* sum over k of factorial(k) * stirling_number2(n, k)
cardinality(n) ==
    LET RECURSIVE tot(_)
        tot(k) == IF k < 0 THEN 0
                  ELSE factorial(k) * stirling_number2(n, k) + tot(k - 1)
    IN tot(n)

\* a list of non-empty disjoint blocks that cover 1..n
is_ordered_set_partition(osp, n) ==
    /\ UNION Range(osp) = 1..n
    /\ \A i \in 1..Len(osp) : osp[i] # {}
    /\ \A i, j \in 1..Len(osp) : i # j => osp[i] \cap osp[j] = {}

\* OrderedSetPartitions(n)
OrderedSetPartitions(n) ==
    {osp \in UNION {[1..k -> (SUBSET (1..n)) \ {{}}] : k \in 0..n} :
        is_ordered_set_partition(osp, n)}

\* PackedWordsBaseClass.from_ordered_set_partition:
\* PackedWord(OrderedSetPartition(osp).to_packed_word()), the letter at the
\* place of an element being the number of its block
from_ordered_set_partition(osp) ==
    LET X == SortedList(UNION Range(osp))
    IN PackedWord([i \in 1..Len(X) |->
                     CHOOSE k \in 1..Len(osp) : X[i] \in osp[k]])

\* Permutations()(sigma) accepts the list
is_permutation(sigma) == Range(sigma) = 1..Len(sigma) 

RECURSIVE extend(_, _)
\* "for (pw, l_index) in li": the entry with the letter of l_index repeated
\* at index_i when l_index < index_i, then the entry with that letter plus
\* one; a dictionary is the list of its values by key, 0 where no key is set
extend(li, index_i) ==
    IF li = <<>> THEN <<>>
    ELSE LET pw == li[1][1]
             l_index == li[1][2]
             same == [pw EXCEPT ![index_i + 1] = pw[l_index + 1]]
             more == [pw EXCEPT ![index_i + 1] = pw[l_index + 1] + 1]
         IN (IF l_index < index_i THEN <<<<same, index_i>>>> ELSE <<>>)
              \o <<<<more, index_i>>>> \o extend(Tail(li), index_i)

RECURSIVE rounds(_, _, _)
\* "for i in range(2, n)"
rounds(li, sigma, i) ==
    IF i >= Len(sigma) THEN li
    ELSE rounds(extend(li, index(sigma, i)), sigma, i + 1)

\* list(pw.values()): by key where a dictionary of small integers iterates
\* in the order of its keys, by insertion (the places of 1, 2, ... in sigma)
\* where it keeps the order of insertion
values(pw, sigma, order) ==
    IF order = "key" THEN pw
    ELSE [i \in 1..Len(sigma) |-> pw[index(sigma, i) + 1]]

\* the cases in which permutation_to_packed_words raises ValueError: sigma
\* is not a permutation, the family has another size, or sigma.index(1)
\* finds no 1; size is None on the family of all packed words
permutation_to_packed_words_raises(size, sigma) ==
    \/ ~is_permutation(sigma)
    \/ size # None /\ size # Len(sigma)
    \/ size \notin {0, 1} /\ 1 \notin Range(sigma)

\* PackedWordsBaseClass.permutation_to_packed_words
permutation_to_packed_words(size, sigma, order) ==
    IF permutation_to_packed_words_raises(size, sigma) THEN ValueError
    ELSE IF size = 0 THEN <<<<>>>>
    ELSE IF size = 1 THEN <<<<1>>>>
    ELSE LET n == Len(sigma)
             first == [k \in 1..n |-> IF k = index(sigma, 1) + 1 THEN 1 ELSE 0]
             li == rounds(<<<<first, index(sigma, 1)>>>>, sigma, 2)
             res == extend(li, index(sigma, n))
         IN [k \in 1..Len(res) |-> values(res[k][1], sigma, order)]

InitFamily ==
    /\ pc = "family"
    /\ family \in {None} \cup 0..MaxFamily
    /\ self = <<>>
    /\ other = <<>>
    /\ out = <<>>
    /\ arg = <<>>
    /\ IdleTraversal

\* PackedWords(n).cardinality()
FamilyCardinality ==
    /\ pc = "family"
    /\ family # None
    /\ out' = cardinality(family)
    /\ pc' = "cardinality"
    /\ UNCHANGED <<self, other, family, arg, travVars>>

\* len([w for w in PackedWords(n) if w.is_particular(side)]), n in range(1, 7)
CountParticular ==
    /\ pc = "family"
    /\ family # None
    /\ family >= 1
    /\ \E side \in {"right", "left"} :
          /\ arg' = <<side>>
          /\ out' = Cardinality({w \in PackedWords_size(family) :
                                   is_particular(w, side)})
    /\ pc' = "count"
    /\ UNCHANGED <<self, other, family, travVars>>

\* w.to_ordered_set_partition() for a word w of PackedWords(n)
ToPartition ==
    /\ pc = "family"
    /\ family # None
    /\ \E w \in PackedWords_size(family) :
          /\ self' = w
          /\ out' = to_ordered_set_partition(w)
    /\ pc' = "to_osp"
    /\ UNCHANGED <<other, family, arg, travVars>>

\* from_ordered_set_partition of the partition returned
FromPartitionBack ==
    /\ pc = "to_osp"
    /\ out' = from_ordered_set_partition(out)
    /\ pc' = "to_from_osp"
    /\ UNCHANGED <<self, other, family, arg, travVars>>

\* PackedWords().from_ordered_set_partition(osp), osp an ordered set
\* partition of 1..n
FromPartition ==
    /\ pc = "family"
    /\ family # None
    /\ family <= MaxOspSize
    /\ \E osp \in OrderedSetPartitions(family) :
          /\ arg' = <<osp>>
          /\ out' = from_ordered_set_partition(osp)
    /\ pc' = "from_osp"
    /\ UNCHANGED <<self, other, family, travVars>>

\* to_ordered_set_partition of the word returned
ToPartitionBack ==
    /\ pc = "from_osp"
    /\ out # ValueError
    /\ out' = to_ordered_set_partition(out)
    /\ pc' = "from_to_osp"
    /\ UNCHANGED <<self, other, family, arg, travVars>>

\* PackedWords(n).permutation_to_packed_words(sigma) and
\* PackedWords().permutation_to_packed_words(sigma)
PermutationToPackedWords ==
    /\ pc = "family"
    /\ \E sigma \in UNION {[1..k -> 1..MaxPermLen] : k \in 0..MaxPermLen},
          order \in {"key", "insertion"} :
          /\ arg' = <<sigma, order>>
          /\ out' = permutation_to_packed_words(family, sigma, order)
          /\ pc' = IF permutation_to_packed_words_raises(family, sigma)
                   THEN "raised" ELSE "permutation_words"
    /\ UNCHANGED <<self, other, family, travVars>>

NextFamily ==
    \/ FamilyCardinality
    \/ CountParticular
    \/ ToPartition
    \/ FromPartitionBack
    \/ FromPartition
    \/ ToPartitionBack
    \/ PermutationToPackedWords

SpecFamily == InitFamily /\ [][NextFamily]_vars

\* C21: for n = 1..6 the number of packed words of size n with
\* is_particular() true is 1, 1, 4, 28, 240, 2384, and so is the number with
\* is_particular("left") true
ParticularCounts ==
    (pc = "count" /\ family <= 6) =>
        out = <<1, 1, 4, 28, 240, 2384>>[family]

\* the count of the left side for the size 6
ParticularCountsWitness ==
    pc = "count" /\ family = 6 /\ arg = <<"left">> /\ out = 2384

\* C22: the number of lists of length n that check accepts is the
\* cardinality of PackedWords(n): 1, 1, 3, 13 for n = 0..3 and 541 for n = 5;
\* from_ordered_set_partition undoes to_ordered_set_partition on the packed
\* words and to_ordered_set_partition undoes from_ordered_set_partition on
\* the ordered set partitions of 1..n
CardinalityAndPartitions ==
    /\ pc = "cardinality" =>
          /\ out = Cardinality({w \in [1..family -> 0..(family + 1)] : check(w)})
          /\ family <= 3 => out = <<1, 1, 3, 13>>[family + 1]
          /\ family = 5 => out = 541
    /\ pc = "to_osp" => is_ordered_set_partition(out, family)
    /\ pc = "to_from_osp" => out = self
    /\ pc = "from_osp" => out \in PackedWords_size(family)
    /\ pc = "from_to_osp" => out = arg[1]

\* a word of size 5 with a repeated letter that came back from its partition
CardinalityAndPartitionsWitness ==
    /\ pc = "to_from_osp"
    /\ family = 5
    /\ max(self) = 3
    /\ self[1] = 2
    /\ out = self

\* C23 as stated: on the family of all packed words and on the family of the
\* size of sigma, permutation_to_packed_words(sigma) returns the packed words
\* whose standardization is sigma, each of them once and nothing else
PermutationWordsExact ==
    (pc \in {"permutation_words", "raised"} /\ is_permutation(arg[1])
        /\ family \in {None, Len(arg[1])}) =>
        /\ pc # "raised"
        /\ \A k \in 1..Len(out) :
              check(out[k]) /\ to_standard(out[k]) = arg[1]
        /\ \A w \in PackedWords_size(Len(arg[1])) :
              to_standard(w) = arg[1] => w \in Range(out)
        /\ \A j, k \in 1..Len(out) : j # k => out[j] # out[k]

====
